---------------------------- MODULE Spec2Model ----------------------------
(***************************************************************************)
(* A model of arcutils' table.py and field.py: the field-value scanners,   *)
(* the schema helpers, the schema comparator and the CSV schema exporter,  *)
(* each as one action over the inputs the host platform (arcpy) hands it.  *)
(* The program is Python 2 (dict.has_key, unicode, keys()+keys()).         *)
(***************************************************************************)
EXTENDS Integers, Sequences, FiniteSets, TLC

VARIABLES
    workspace,      \* arcpy.env.workspace, the process-wide setting
    ignore_fields,  \* the list object a caller passes as ignore_fields
    caller_ignore,  \* the names the caller itself put in that list
    op,             \* the function called last
    args,           \* its arguments and what the platform handed it
    status,         \* "value" | "None" | "raise": how the call ended
    exc,            \* the exception that left the call ("" when none)
    retInt,         \* an integer result
    retSet,         \* a set result
    retList,        \* a list result
    retDict,        \* a dictionary result
    msgs,           \* what the call sent to output_msg, in order
    logFile         \* what export_schema_to_csv wrote, in order

vars == <<workspace, ignore_fields, caller_ignore, op, args, status, exc,
          retInt, retSet, retList, retDict, msgs, logFile>>

-----------------------------------------------------------------------------
(* Bounds of the model.                                                    *)

MaxRows == 3
MaxFields == 2
MaxIgnore == 3

-----------------------------------------------------------------------------
(* Row values of one column, as a cursor yields them (value[0]).           *)

Null == [kind |-> "null", chars |-> <<>>, num |-> 0]
Text(s) == [kind |-> "text", chars |-> s, num |-> 0]
Other(n) == [kind |-> "other", chars |-> <<>>, num |-> n]

\* One character outside 7-bit ASCII; every other character used is ASCII.
NonAscii == "U+00E9"
IsAsciiChar(c) == c # NonAscii

NullToken == <<"<", "N", "u", "l", "l", ">">>

RowValues ==
    { Null, Text(<<>>), Text(<<"a">>), Text(<<NonAscii>>),
      Text(<<"a", NonAscii>>), Text(NullToken), Other(1) }

RowSeqs == UNION { [1..n -> RowValues] : n \in 0..MaxRows }

Charsets == {"ascii", "utf-8"}

\* How a cursor ends: it yields every row, or it raises after yielding
\* failAt rows (0: while it is opened).  An exception carries args or not.
CursorFails == {"none", "ExecuteError", "Exception"}

\* len(value[0]): defined on text only; len(None) and len(1) raise TypeError.
PyLen(v) == Len(v.chars)

\* value[0].encode('ascii', 'ignore'): drops what ASCII cannot represent.
EncodeAsciiIgnore(v) == Text(SelectSeq(v.chars, IsAsciiChar))

\* The rows a cursor yields before it stops.
Yielded(rows, fail, failAt) ==
    IF fail = "none" THEN rows ELSE SubSeq(rows, 1, failAt)

NoArgs ==
    [fc1 |-> "", fc2 |-> "", fields1 |-> <<>>, fields2 |-> <<>>,
     rows |-> <<>>, charset |-> "", variant |-> "", flag |-> FALSE,
     use_ignore |-> FALSE, fail |-> "none", failAt |-> 0,
     excArgs |-> TRUE, fc_type |-> "", default_env |-> ""]


\* What a call leaves behind: how it ended and what it returned or raised.
Returned ==
    [status |-> "value", exc |-> "", int |-> 0, set |-> {}, list |-> <<>>,
     dict |-> <<>>, msgs |-> <<>>]
ReturnedNone(m) == [Returned EXCEPT !.status = "None", !.msgs = m]
Raised(e, m) == [Returned EXCEPT !.status = "raise", !.exc = e, !.msgs = m]

\* One message to output_msg: the format string and what fills it.
Msg(fmt, a) == [fmt |-> fmt, a |-> a]

-----------------------------------------------------------------------------
(* field.py                                                                *)

RECURSIVE field_max_loop(_, _, _)
field_max_loop(values, i, length) ==
    IF i > Len(values) THEN [ok |-> TRUE, length |-> length]
    ELSE IF values[i].kind # "text" THEN [ok |-> FALSE, length |-> length]
    ELSE field_max_loop(values, i + 1,
            IF PyLen(values[i]) > length THEN PyLen(values[i]) ELSE length)

\* No handler: a TypeError of len() or the cursor's error reaches the caller.
field_get_max_field_value_length(rows, fail, failAt) ==
    LET r == field_max_loop(Yielded(rows, fail, failAt), 1, 0) IN
    IF ~r.ok THEN Raised("TypeError", <<>>)
    ELSE IF fail # "none" THEN Raised(fail, <<>>)
    ELSE [Returned EXCEPT !.int = r.length]

RECURSIVE field_set_loop(_, _, _, _)
field_set_loop(values, i, charset, value_set) ==
    IF i > Len(values) THEN value_set
    ELSE LET v == values[i] IN
         field_set_loop(values, i + 1, charset,
            IF v.kind = "null" THEN value_set \cup {Text(<<>>)}
            ELSE IF v.kind = "text" THEN
                IF charset # "ascii" THEN value_set \cup {v}
                ELSE value_set \cup {EncodeAsciiIgnore(v)}
            ELSE value_set \cup {v})

\* The two handlers of a get_field_value_set: the first sends the platform's
\* messages, the second e.args[0], which raises IndexError when args is ().
\* A function that ends without return returns None.
field_handlers(fail, excArgs) ==
    IF fail = "ExecuteError" THEN ReturnedNone(<<Msg("GetMessages(2)", <<>>)>>)
    ELSE IF excArgs THEN ReturnedNone(<<Msg("e.args[0]", <<>>)>>)
    ELSE Raised("IndexError", <<>>)

field_get_field_value_set(rows, charset, fail, failAt, excArgs) ==
    IF fail = "none"
    THEN [Returned EXCEPT !.set = field_set_loop(rows, 1, charset, {})]
    ELSE field_handlers(fail, excArgs)

-----------------------------------------------------------------------------
(* table.py: the free functions                                            *)

\* The loop with the comparison the wrong way round.
RECURSIVE table_max_loop_less(_, _, _)
table_max_loop_less(values, i, length) ==
    IF i > Len(values) THEN [ok |-> TRUE, length |-> length]
    ELSE IF values[i].kind # "text" THEN [ok |-> FALSE, length |-> length]
    ELSE table_max_loop_less(values, i + 1,
            IF PyLen(values[i]) < length THEN PyLen(values[i]) ELSE length)

RECURSIVE table_max_loop(_, _, _)
table_max_loop(values, i, length) ==
    IF i > Len(values) THEN [ok |-> TRUE, length |-> length]
    ELSE IF values[i].kind # "text" THEN [ok |-> FALSE, length |-> length]
    ELSE table_max_loop(values, i + 1,
            IF PyLen(values[i]) > length THEN PyLen(values[i]) ELSE length)

table_get_max_field_value_length(rows, fail, failAt) ==
    LET r == table_max_loop(Yielded(rows, fail, failAt), 1, 0) IN
    IF ~r.ok THEN Raised("TypeError", <<>>)
    ELSE IF fail # "none" THEN Raised(fail, <<>>)
    ELSE [Returned EXCEPT !.int = r.length]

\* The loop without the test for None: a null is added as it is.
RECURSIVE table_set_loop_nonull(_, _, _, _)
table_set_loop_nonull(values, i, charset, value_set) ==
    IF i > Len(values) THEN value_set
    ELSE LET v == values[i] IN
         table_set_loop_nonull(values, i + 1, charset,
            IF v.kind = "text" THEN
                IF charset # "ascii" THEN value_set \cup {v}
                ELSE value_set \cup {EncodeAsciiIgnore(v)}
            ELSE value_set \cup {v})

RECURSIVE table_set_loop(_, _, _, _)
table_set_loop(values, i, charset, value_set) ==
    IF i > Len(values) THEN value_set
    ELSE LET v == values[i] IN
         table_set_loop(values, i + 1, charset,
            IF v.kind = "null" THEN value_set \cup {Text(NullToken)}
            ELSE IF v.kind = "text" THEN
                IF charset # "ascii" THEN value_set \cup {v}
                ELSE value_set \cup {EncodeAsciiIgnore(v)}
            ELSE value_set \cup {v})

table_handlers(fail, excArgs) ==
    IF fail = "ExecuteError" THEN ReturnedNone(<<Msg("GetMessages(2)", <<>>)>>)
    ELSE IF excArgs THEN ReturnedNone(<<Msg("e.args[0]", <<>>)>>)
    ELSE Raised("IndexError", <<>>)

table_get_field_value_set(rows, charset, fail, failAt, excArgs) ==
    IF fail = "none"
    THEN [Returned EXCEPT !.set = table_set_loop(rows, 1, charset, {})]
    ELSE table_handlers(fail, excArgs)

-----------------------------------------------------------------------------
(* table.py: TableObj's methods                                            *)

RECURSIVE TableObj_max_loop(_, _, _)
TableObj_max_loop(values, i, length) ==
    IF i > Len(values) THEN [ok |-> TRUE, length |-> length]
    ELSE IF values[i].kind # "text" THEN [ok |-> FALSE, length |-> length]
    ELSE TableObj_max_loop(values, i + 1,
            IF PyLen(values[i]) > length THEN PyLen(values[i]) ELSE length)

TableObj_get_max_field_value_length(rows, fail, failAt) ==
    LET r == TableObj_max_loop(Yielded(rows, fail, failAt), 1, 0) IN
    IF ~r.ok THEN Raised("TypeError", <<>>)
    ELSE IF fail # "none" THEN Raised(fail, <<>>)
    ELSE [Returned EXCEPT !.int = r.length]

RECURSIVE TableObj_set_loop(_, _, _, _)
TableObj_set_loop(values, i, charset, value_set) ==
    IF i > Len(values) THEN value_set
    ELSE LET v == values[i] IN
         TableObj_set_loop(values, i + 1, charset,
            IF v.kind = "null" THEN value_set \cup {Text(NullToken)}
            ELSE IF v.kind = "text" THEN
                IF charset # "ascii" THEN value_set \cup {v}
                ELSE value_set \cup {EncodeAsciiIgnore(v)}
            ELSE value_set \cup {v})

TableObj_handlers(fail, excArgs) ==
    IF fail = "ExecuteError" THEN ReturnedNone(<<Msg("GetMessages(2)", <<>>)>>)
    ELSE IF excArgs THEN ReturnedNone(<<Msg("e.args[0]", <<>>)>>)
    ELSE Raised("IndexError", <<>>)

TableObj_get_field_value_set(rows, charset, fail, failAt, excArgs) ==
    IF fail = "none"
    THEN [Returned EXCEPT !.set = TableObj_set_loop(rows, 1, charset, {})]
    ELSE TableObj_handlers(fail, excArgs)

-----------------------------------------------------------------------------
(* Field descriptors, as arcpy.ListFields returns them.                    *)

Field(name, aliasName, type, length, required, isNullable) ==
    [name |-> name, aliasName |-> aliasName, type |-> type,
     length |-> length, required |-> required, isNullable |-> isNullable,
     editable |-> ~required, precision |-> 0, scale |-> 0, domain |-> "",
     defaultValue |-> "None", baseName |-> name]

\* Field names in the order Python's sorted() gives them.
NameOrder == <<"CODE", "NAME", "OBJECTID">>
FieldNames == { NameOrder[i] : i \in DOMAIN NameOrder }

\* The descriptors a schema may hold: per name a base descriptor and ones
\* that differ from it in type, length, alias or the required flag.
SchemaFields ==
    { Field("NAME", "NAME", "String", 10, FALSE, TRUE),
      Field("NAME", "NAME", "Integer", 10, FALSE, TRUE),
      Field("NAME", "NAME", "String", 20, FALSE, TRUE),
      Field("NAME", "Name", "String", 10, FALSE, TRUE),
      Field("NAME", "NAME", "String", 10, TRUE, TRUE),
      Field("CODE", "CODE", "String", 10, FALSE, TRUE),
      Field("CODE", "CODE", "String", 20, FALSE, TRUE),
      Field("OBJECTID", "OBJECTID", "OID", 0, TRUE, FALSE),
      Field("OBJECTID", "OBJECTID", "Integer", 0, TRUE, FALSE) }

\* The descriptors the exporter may meet: types the conversion table knows
\* and one (OID) it does not.
ExportFields ==
    { Field(n, n, t, 10, n = "OBJECTID", nl) :
        n \in {"NAME", "OBJECTID"}, t \in {"String", "Integer", "OID"},
        nl \in BOOLEAN }

DistinctNames(l) == \A i, j \in DOMAIN l : l[i].name = l[j].name => i = j

\* What ListFields may return: up to MaxFields descriptors, no name twice.
FieldLists(F) ==
    { l \in UNION { [1..n -> F] : n \in 0..MaxFields } : DistinctNames(l) }

Paths == {"fcA", "fcB"}

\* A Python dictionary key: a str, an int or a bool; keys of different
\* types are different keys (a str never equals an int or a bool).
StrKey(s) == [t |-> "str", s |-> s, n |-> 0]
IntKey(n) == [t |-> "int", s |-> "", n |-> n]
BoolKey(b) == [t |-> "bool", s |-> "", n |-> IF b THEN 1 ELSE 0]

\* d.has_key(k) and d[k] for a dictionary whose keys are all str.
HasItem(d, k) == k.t = "str" /\ k.s \in DOMAIN d
Item(d, k) == d[k.s]

\* A list as the set of its items.
Items(l) == { l[i] : i \in DOMAIN l }

\* "{}".format(n) for the integers the model's descriptors hold.
FormatInt(n) == CASE n = 0 -> "0" [] n = 10 -> "10" [] n = 20 -> "20"
                  [] OTHER -> "int"

-----------------------------------------------------------------------------
(* table.py: list_field_names, make_field_dict                             *)

RECURSIVE TableObj_list_field_names(_, _, _)
TableObj_list_field_names(fields, i, all) ==
    IF i > Len(fields) THEN <<>>
    ELSE LET f == fields[i]
             rest == TableObj_list_field_names(fields, i + 1, all) IN
         IF all THEN <<f.name>> \o rest
         ELSE IF ~f.required THEN <<f.name>> \o rest ELSE rest

RECURSIVE list_field_names(_, _, _)
list_field_names(fields, i, required) ==
    IF i > Len(fields) THEN <<>>
    ELSE LET f == fields[i]
             rest == list_field_names(fields, i + 1, required) IN
         IF required THEN <<f.name>> \o rest
         ELSE IF f.required THEN <<f.name>> \o rest ELSE rest

\* The loop of lines 229-231: appends to the list fields_to_ignore names.
RECURSIVE append_required(_, _, _)
append_required(l_fields, i, fields_to_ignore) ==
    IF i > Len(l_fields) THEN fields_to_ignore
    ELSE append_required(l_fields, i + 1,
            IF l_fields[i].required
            THEN Append(fields_to_ignore, l_fields[i].name)
            ELSE fields_to_ignore)

\* The value make_field_dict stores for one field.
field_entry(field) ==
    [name |-> field.name, alias |-> field.aliasName, type |-> field.type,
     length |-> field.length, required |-> field.required]

\* make_field_dict: the dictionary it returns, and the caller's list object
\* as the call leaves it.  fields_to_ignore = ignore_fields binds the
\* caller's own list, so the appends of skip_required land in it; with
\* ignore_fields None the list is a fresh one.
make_field_dict(l_fields, use_ignore, ignore, skip_required) ==
    LET start == IF ~use_ignore THEN <<>> ELSE ignore
        fields_to_ignore ==
            IF skip_required THEN append_required(l_fields, 1, start)
            ELSE start
        kept == { i \in DOMAIN l_fields :
                    l_fields[i].name \notin Items(fields_to_ignore) }
        byName(n) == CHOOSE i \in kept : l_fields[i].name = n
    IN [dict |-> [n \in { l_fields[i].name : i \in kept } |->
                    field_entry(l_fields[byName(n)])],
        ignore |-> IF use_ignore THEN fields_to_ignore ELSE ignore]

-----------------------------------------------------------------------------
(* table.py: compare_schemas                                               *)

\* sorted(list(set(field_dict1.keys() + field_dict2.keys())))
SortedUnion(d1, d2) ==
    SelectSeq(NameOrder, LAMBDA n : n \in (DOMAIN d1 \cup DOMAIN d2))

NotFound(ifield, fc) == Msg(" {0} not found in {1}", <<ifield, fc>>)
Same(ifield) == Msg(" {0} field same in both", <<ifield>>)
\* The line of lines 277-278, from the four values read at lines 272-275.
Mismatch(fc1, fc2, ifield, e1, e2) ==
    Msg(" {0} {1} {2} {3} does not exactly match {4} {5} {6} {7}",
        <<fc1, ifield, Item(e1, IntKey(1)), FormatInt(Item(e1, IntKey(2))),
          fc2, ifield, Item(e2, IntKey(1)), FormatInt(Item(e2, IntKey(2)))>>)

\* The loop with the "same" line appended to the result like the others.
RECURSIVE compare_loop_appends_same(_, _, _, _, _, _, _)
compare_loop_appends_same(names, i, fc1, fc2, d1, d2, acc) ==
    IF i > Len(names) THEN acc
    ELSE LET ifield == names[i] IN
      IF ifield \notin DOMAIN d1 THEN
        compare_loop_appends_same(names, i + 1, fc1, fc2, d1, d2,
            [acc EXCEPT !.list = Append(@, NotFound(ifield, fc1)),
                        !.msgs = Append(@, NotFound(ifield, fc1))])
      ELSE IF ifield \notin DOMAIN d2 THEN
        compare_loop_appends_same(names, i + 1, fc1, fc2, d1, d2,
            [acc EXCEPT !.list = Append(@, NotFound(ifield, fc2)),
                        !.msgs = Append(@, NotFound(ifield, fc2))])
      ELSE IF d1[ifield] = d2[ifield] THEN
        compare_loop_appends_same(names, i + 1, fc1, fc2, d1, d2,
            [acc EXCEPT !.list = Append(@, Same(ifield)),
                        !.msgs = Append(@, Same(ifield))])
      ELSE Raised("KeyError", acc.msgs)

\* The loop of lines 256-280.  The values of a field dictionary are
\* dictionaries keyed "name", "alias", "type", "length", "required", so the
\* subscripts [1] and [2] of lines 272-275 raise KeyError.
RECURSIVE compare_loop(_, _, _, _, _, _, _)
compare_loop(names, i, fc1, fc2, d1, d2, acc) ==
    IF i > Len(names) THEN acc
    ELSE LET ifield == names[i] IN
      IF ifield \notin DOMAIN d1 THEN
        compare_loop(names, i + 1, fc1, fc2, d1, d2,
            [acc EXCEPT !.list = Append(@, NotFound(ifield, fc1)),
                        !.msgs = Append(@, NotFound(ifield, fc1))])
      ELSE IF ifield \notin DOMAIN d2 THEN
        compare_loop(names, i + 1, fc1, fc2, d1, d2,
            [acc EXCEPT !.list = Append(@, NotFound(ifield, fc2)),
                        !.msgs = Append(@, NotFound(ifield, fc2))])
      ELSE IF d1[ifield] = d2[ifield] THEN
        compare_loop(names, i + 1, fc1, fc2, d1, d2,
            [acc EXCEPT !.msgs = Append(@, Same(ifield))])
      ELSE IF ~(HasItem(d1[ifield], IntKey(1)) /\ HasItem(d2[ifield], IntKey(1))
                /\ HasItem(d1[ifield], IntKey(2)) /\ HasItem(d2[ifield], IntKey(2)))
        THEN Raised("KeyError", acc.msgs)
      ELSE
        compare_loop(names, i + 1, fc1, fc2, d1, d2,
            [acc EXCEPT
               !.list = Append(@, Mismatch(fc1, fc2, ifield, d1[ifield], d2[ifield])),
               !.msgs = Append(@, Mismatch(fc1, fc2, ifield, d1[ifield], d2[ifield]))])

\* The dictionary compare_schemas builds for one table (lines 254, 255).
FieldDictOf(fields) == make_field_dict(fields, FALSE, <<>>, FALSE).dict

compare_schemas(fc1, fc2, fields1, fields2) ==
    LET field_dict1 == FieldDictOf(fields1)
        field_dict2 == FieldDictOf(fields2)
    IN compare_loop(SortedUnion(field_dict1, field_dict2), 1, fc1, fc2,
                    field_dict1, field_dict2, Returned)

-----------------------------------------------------------------------------
(* table.py: export_schema_to_csv                                          *)

type_conversions ==
    [k \in {"String", "Float", "Double", "SmallInteger", "Integer", "Date",
            "Blob", "Raster", "GUID", "TRUE", "FALSE"} |->
        CASE k = "String" -> "TEXT" [] k = "Float" -> "FLOAT"
          [] k = "Double" -> "DOUBLE" [] k = "SmallInteger" -> "SHORT"
          [] k = "Integer" -> "LONG" [] k = "Date" -> "DATE"
          [] k = "Blob" -> "BLOB" [] k = "Raster" -> "RASTER"
          [] k = "GUID" -> "GUID" [] k = "TRUE" -> "True"
          [] k = "FALSE" -> "False"]

HeaderText ==
    "FieldName,FieldType,FieldPrecision,FieldScale,FieldLength,FieldAlias,isNullable,Required,FieldDomain,DefaultValue,Editable,BaseName\n"

\* A text file being written: the lines ended so far and the open line.
EmptyFile == [lines |-> <<>>, cur |-> <<>>]
\* logFile.write(piece): nl says that the piece ends with "\n".
Write(file, piece, nl) ==
    IF nl THEN [lines |-> Append(file.lines, Append(file.cur, piece)),
                cur |-> <<>>]
    ELSE [file EXCEPT !.cur = Append(@, piece)]
\* The lines of the file as a reader sees them.
FileLines(file) ==
    file.lines \o (IF file.cur = <<>> THEN <<>> ELSE <<file.cur>>)

\* The keys line 331-343 looks up for one field: field.type is a str,
\* field.isNullable, field.required and field.editable are Python bools.
RowKeys(field) ==
    <<StrKey(field.type), BoolKey(field.isNullable), BoolKey(field.required),
      BoolKey(field.editable)>>

RowPiece(field) ==
    Msg("{0},{1},{2},{3},{4},{5},{6},{7},{8},{9},{10},{11}\n",
        <<field.name, Item(type_conversions, RowKeys(field)[1]),
          FormatInt(field.precision), FormatInt(field.scale),
          FormatInt(field.length), field.aliasName,
          Item(type_conversions, RowKeys(field)[2]),
          Item(type_conversions, RowKeys(field)[3]),
          field.domain, field.defaultValue,
          Item(type_conversions, RowKeys(field)[4]), field.baseName>>)

\* The loop of lines 329-343: a key the table lacks raises KeyError before
\* anything of the row is written.
RECURSIVE export_rows(_, _, _)
export_rows(fields, i, acc) ==
    IF i > Len(fields) THEN acc
    ELSE LET field == fields[i]
             m == Append(acc.msgs, Msg("Writing {}", <<field.name>>)) IN
         IF \E j \in 1..4 : ~HasItem(type_conversions, RowKeys(field)[j])
         THEN [acc EXCEPT !.ok = FALSE, !.msgs = m]
         ELSE export_rows(fields, i + 1,
                [acc EXCEPT !.msgs = m,
                            !.file = Write(acc.file, RowPiece(field), TRUE)])

\* A handler of lines 344-346 or 348-350 for an exception e: str(e.args[0])
\* raises IndexError when e.args is ().
export_handler(o, hasArgs) ==
    IF hasArgs
    THEN [o EXCEPT !.status = "None", !.exc = "",
                   !.msgs = @ \o <<Msg("str(e.args[0])", <<>>),
                                   Msg("GetMessages()", <<>>)>>]
    ELSE [o EXCEPT !.status = "raise", !.exc = "IndexError"]

\* The restore written after the try statement instead of in its finally.
export_finally_after_try(o, default_env) ==
    IF o.status = "raise" THEN o
    ELSE [o EXCEPT !.msgs = Append(@, Msg("Completed", <<>>)),
                   !.workspace = default_env]

\* Lines 351-353: runs on every way out of the try statement.
export_finally(o, default_env) ==
    [o EXCEPT !.msgs = Append(@, Msg("Completed", <<>>)),
              !.workspace = default_env]

\* Lines 321-346: the file is open.
export_write(o, fc_type, fields, fail, excArgs) ==
    LET f1 == Write(EmptyFile, Msg("Type,{}", <<fc_type>>), FALSE)
        f2 == Write(f1, Msg(HeaderText, <<>>), TRUE)
        o2 == [o EXCEPT !.file = f2]
    IN IF fail = "ListFields"
       THEN \* the inner handler; what it raises, the outer one catches
            LET h == export_handler(o2, excArgs) IN
            IF h.status = "raise" THEN export_handler(h, TRUE) ELSE h
       ELSE LET r == export_rows(fields, 1,
                        [ok |-> TRUE, file |-> f2, msgs |-> o2.msgs])
                o3 == [o2 EXCEPT !.file = r.file, !.msgs = r.msgs]
            IN IF r.ok THEN o3 ELSE export_handler(o3, TRUE)

\* Lines 308-350: the try statement's body and its handler.
export_try(input_fc, default_env, fc_type, fields, fail, excArgs) ==
    LET o0 == [status |-> "None", exc |-> "", workspace |-> default_env,
               file |-> EmptyFile,
               msgs |-> <<Msg("Processing: {}", <<input_fc>>)>>]
        o1 == [o0 EXCEPT !.workspace = input_fc]
        o2 == [o1 EXCEPT !.msgs = Append(@, Msg("Report file: {0}", <<input_fc>>))]
    IN IF fail = "Describe2" THEN export_handler(o0, TRUE)   \* ValueError(msg)
       ELSE IF fail = "get_valid_output_path" THEN export_handler(o1, excArgs)
       ELSE IF fail = "open" THEN export_handler(o2, excArgs)
       ELSE export_write(o2, fc_type, fields, fail, excArgs)

export_schema_to_csv(input_fc, default_env, fc_type, fields, fail, excArgs) ==
    IF fail = "Describe1"
    THEN \* line 302 is outside the try statement
         [status |-> "raise", exc |-> "Describe", workspace |-> default_env,
          file |-> EmptyFile, msgs |-> <<>>]
    ELSE export_finally(
            export_try(input_fc, default_env, fc_type, fields, fail, excArgs),
            default_env)

ExportFails ==
    {"none", "Describe1", "Describe2", "get_valid_output_path", "open",
     "ListFields"}

\* Lines 301-306: what the hasattr tests make of the Describe object.
FcTypes == {"Polygon", "Table", "Unknown"}

Workspaces == {"None", "C:/data", "fcA"}

-----------------------------------------------------------------------------
(* The state machine: one action per function, its inputs what the caller  *)
(* passes and what the platform hands the call.                            *)

Init ==
    /\ workspace = "None"
    /\ ignore_fields = <<>>
    /\ caller_ignore = <<>>
    /\ op = "idle"
    /\ args = NoArgs
    /\ status = "value"
    /\ exc = ""
    /\ retInt = 0
    /\ retSet = {}
    /\ retList = <<>>
    /\ retDict = <<>>
    /\ msgs = <<>>
    /\ logFile = EmptyFile

\* The record a call of a scanner or schema function leaves.
Finish(name, a, o) ==
    /\ op' = name
    /\ args' = a
    /\ status' = o.status
    /\ exc' = o.exc
    /\ retInt' = o.int
    /\ retSet' = o.set
    /\ retList' = o.list
    /\ retDict' = o.dict
    /\ msgs' = o.msgs

\* A cursor over rows: it ends normally, or raises after failAt rows.
CursorRuns(rows, fail, failAt, excArgs) ==
    /\ rows \in RowSeqs
    /\ fail \in CursorFails
    /\ failAt \in 0..Len(rows)
    /\ excArgs \in BOOLEAN
    /\ fail = "none" => failAt = 0 /\ excArgs

ScanArgs(variant, rows, charset, fail, failAt, excArgs) ==
    [NoArgs EXCEPT !.variant = variant, !.rows = rows, !.charset = charset,
                   !.fail = fail, !.failAt = failAt, !.excArgs = excArgs]

FieldGetMax ==
    /\ op = "idle"
    /\ \E rows \in RowSeqs, fail \in CursorFails, failAt \in 0..MaxRows :
        /\ CursorRuns(rows, fail, failAt, TRUE)
        /\ Finish("get_max_field_value_length",
                  ScanArgs("field", rows, "", fail, failAt, TRUE),
                  field_get_max_field_value_length(rows, fail, failAt))
        /\ UNCHANGED <<workspace, ignore_fields, caller_ignore, logFile>>

TableGetMax ==
    /\ op = "idle"
    /\ \E rows \in RowSeqs, fail \in CursorFails, failAt \in 0..MaxRows :
        /\ CursorRuns(rows, fail, failAt, TRUE)
        /\ Finish("get_max_field_value_length",
                  ScanArgs("table", rows, "", fail, failAt, TRUE),
                  table_get_max_field_value_length(rows, fail, failAt))
        /\ UNCHANGED <<workspace, ignore_fields, caller_ignore, logFile>>

TableObjGetMax ==
    /\ op = "idle"
    /\ \E rows \in RowSeqs, fail \in CursorFails, failAt \in 0..MaxRows :
        /\ CursorRuns(rows, fail, failAt, TRUE)
        /\ Finish("get_max_field_value_length",
                  ScanArgs("TableObj", rows, "", fail, failAt, TRUE),
                  TableObj_get_max_field_value_length(rows, fail, failAt))
        /\ UNCHANGED <<workspace, ignore_fields, caller_ignore, logFile>>

FieldGetValueSet ==
    /\ op = "idle"
    /\ \E rows \in RowSeqs, charset \in Charsets, fail \in CursorFails,
       failAt \in 0..MaxRows, excArgs \in BOOLEAN :
        /\ CursorRuns(rows, fail, failAt, excArgs)
        /\ Finish("get_field_value_set",
                  ScanArgs("field", rows, charset, fail, failAt, excArgs),
                  field_get_field_value_set(rows, charset, fail, failAt, excArgs))
        /\ UNCHANGED <<workspace, ignore_fields, caller_ignore, logFile>>

TableGetValueSet ==
    /\ op = "idle"
    /\ \E rows \in RowSeqs, charset \in Charsets, fail \in CursorFails,
       failAt \in 0..MaxRows, excArgs \in BOOLEAN :
        /\ CursorRuns(rows, fail, failAt, excArgs)
        /\ Finish("get_field_value_set",
                  ScanArgs("table", rows, charset, fail, failAt, excArgs),
                  table_get_field_value_set(rows, charset, fail, failAt, excArgs))
        /\ UNCHANGED <<workspace, ignore_fields, caller_ignore, logFile>>

TableObjGetValueSet ==
    /\ op = "idle"
    /\ \E rows \in RowSeqs, charset \in Charsets, fail \in CursorFails,
       failAt \in 0..MaxRows, excArgs \in BOOLEAN :
        /\ CursorRuns(rows, fail, failAt, excArgs)
        /\ Finish("get_field_value_set",
                  ScanArgs("TableObj", rows, charset, fail, failAt, excArgs),
                  TableObj_get_field_value_set(rows, charset, fail, failAt, excArgs))
        /\ UNCHANGED <<workspace, ignore_fields, caller_ignore, logFile>>

ListFieldNames ==
    /\ op = "idle"
    /\ \E fc \in Paths, fields \in FieldLists(SchemaFields), required \in BOOLEAN :
        /\ Finish("list_field_names",
                  [NoArgs EXCEPT !.fc1 = fc, !.fields1 = fields,
                                 !.flag = required, !.variant = "table"],
                  [Returned EXCEPT !.list = list_field_names(fields, 1, required)])
        /\ UNCHANGED <<workspace, ignore_fields, caller_ignore, logFile>>

TableObjListFieldNames ==
    /\ op = "idle"
    /\ \E fc \in Paths, fields \in FieldLists(SchemaFields), all \in BOOLEAN :
        /\ Finish("list_field_names",
                  [NoArgs EXCEPT !.fc1 = fc, !.fields1 = fields,
                                 !.flag = all, !.variant = "TableObj"],
                  [Returned EXCEPT
                     !.list = TableObj_list_field_names(fields, 1, all)])
        /\ UNCHANGED <<workspace, ignore_fields, caller_ignore, logFile>>

\* The caller fills the list it will pass as ignore_fields.
CallerSetsIgnore ==
    /\ op = "idle"
    /\ \E l \in {<<>>} \cup { <<n>> : n \in FieldNames } :
        /\ l # ignore_fields
        /\ ignore_fields' = l
        /\ caller_ignore' = l
        /\ UNCHANGED <<workspace, op, args, status, exc, retInt, retSet,
                       retList, retDict, msgs, logFile>>

\* make_field_dict(fc, ignore_fields, skip_required), or with use_ignore
\* false make_field_dict(fc, None, skip_required).
MakeFieldDict ==
    /\ op = "idle"
    /\ \E fc \in Paths, fields \in FieldLists(SchemaFields),
       use_ignore \in BOOLEAN, skip_required \in BOOLEAN :
        LET r == make_field_dict(fields, use_ignore, ignore_fields, skip_required)
        IN /\ Len(r.ignore) <= MaxIgnore
           /\ ignore_fields' = r.ignore
           /\ Finish("make_field_dict",
                     [NoArgs EXCEPT !.fc1 = fc, !.fields1 = fields,
                                    !.use_ignore = use_ignore,
                                    !.flag = skip_required],
                     [Returned EXCEPT !.dict = r.dict])
           /\ UNCHANGED <<workspace, caller_ignore, logFile>>

CompareSchemas ==
    /\ op = "idle"
    /\ \E fc1 \in Paths, fc2 \in Paths,
       fields1 \in FieldLists(SchemaFields), fields2 \in FieldLists(SchemaFields) :
        /\ fc1 = fc2 => fields1 = fields2
        /\ Finish("compare_schemas",
                  [NoArgs EXCEPT !.fc1 = fc1, !.fc2 = fc2,
                                 !.fields1 = fields1, !.fields2 = fields2],
                  compare_schemas(fc1, fc2, fields1, fields2))
        /\ UNCHANGED <<workspace, ignore_fields, caller_ignore, logFile>>

\* The caller sets arcpy.env.workspace.
SetWorkspace ==
    /\ op = "idle"
    /\ \E w \in Workspaces :
        /\ workspace' = w
        /\ w # workspace
        /\ UNCHANGED <<ignore_fields, caller_ignore, op, args, status, exc,
                       retInt, retSet, retList, retDict, msgs, logFile>>

ExportSchemaToCsv ==
    /\ op = "idle"
    /\ \E input_fc \in Paths, fc_type \in FcTypes,
       fields \in FieldLists(ExportFields), fail \in ExportFails,
       excArgs \in BOOLEAN :
        LET o == export_schema_to_csv(input_fc, workspace, fc_type, fields,
                                      fail, excArgs)
        IN /\ fail \in {"none", "Describe1", "Describe2"} => excArgs
           /\ workspace' = o.workspace
           /\ logFile' = o.file
           /\ Finish("export_schema_to_csv",
                     [NoArgs EXCEPT !.fc1 = input_fc, !.fc_type = fc_type,
                                    !.fields1 = fields, !.fail = fail,
                                    !.excArgs = excArgs,
                                    !.default_env = workspace],
                     [Returned EXCEPT !.status = o.status, !.exc = o.exc,
                                      !.msgs = o.msgs])
           /\ UNCHANGED <<ignore_fields, caller_ignore>>

\* The caller takes what the call left and goes on; the workspace setting
\* and the caller's list stay as the call left them.
CallerContinues ==
    /\ op # "idle"
    /\ Finish("idle", NoArgs, Returned)
    /\ logFile' = EmptyFile
    /\ UNCHANGED <<workspace, ignore_fields, caller_ignore>>

NextValues ==
    \/ FieldGetMax
    \/ TableGetMax
    \/ TableObjGetMax
    \/ FieldGetValueSet
    \/ TableGetValueSet
    \/ TableObjGetValueSet
    \/ CallerContinues

NextSchema ==
    \/ ListFieldNames
    \/ TableObjListFieldNames
    \/ CallerSetsIgnore
    \/ MakeFieldDict
    \/ CallerContinues

NextCompare ==
    \/ CompareSchemas
    \/ CallerContinues

NextExport ==
    \/ SetWorkspace
    \/ ExportSchemaToCsv
    \/ CallerContinues

Next == NextValues \/ NextSchema \/ NextCompare \/ NextExport

Spec == Init /\ [][Next]_vars

\* The parts of the program that share no state, each on its own.
SpecValues == Init /\ [][NextValues]_vars
SpecSchema == Init /\ [][NextSchema]_vars
SpecCompare == Init /\ [][NextCompare]_vars
SpecExport == Init /\ [][NextExport]_vars

-----------------------------------------------------------------------------
(* The claims.                                                             *)

IsExport == op = "export_schema_to_csv"
IsCompare == op = "compare_schemas"
IsGetMax == op = "get_max_field_value_length"
IsValueSet == op = "get_field_value_set"

\* C1: after every call of export_schema_to_csv, however it ends (normal
\* return, an error caught inside, an exception that reaches the caller),
\* arcpy.env.workspace equals its value immediately before the call.
C1_WorkspaceRestored == IsExport => workspace = args.default_env

\* C1, its case: the call overwrote the setting with another value and an
\* exception raised by the outer handler itself reached the caller.
C1_Witness ==
    /\ IsExport
    /\ status = "raise"
    /\ exc = "IndexError"
    /\ args.fc1 # args.default_env
    /\ workspace = args.default_env

\* The field dictionaries compare_schemas built in the call recorded.
Dict1 == FieldDictOf(args.fields1)
Dict2 == FieldDictOf(args.fields2)

\* The mismatch line the documentation describes for a field: both tables,
\* the field, and each side's type and length.
C2_MismatchLine(n) ==
    Msg(" {0} {1} {2} {3} does not exactly match {4} {5} {6} {7}",
        <<args.fc1, n, Dict1[n].type, FormatInt(Dict1[n].length),
          args.fc2, n, Dict2[n].type, FormatInt(Dict2[n].length)>>)

\* C2: for every field name in both dictionaries whose descriptors differ,
\* compare_schemas returns normally and its list holds exactly one mismatch
\* line for that field, naming both sides' type and length.
C2_MismatchReported ==
    IsCompare =>
        \A n \in DOMAIN Dict1 \cap DOMAIN Dict2 :
            Dict1[n] # Dict2[n] =>
                /\ status = "value"
                /\ Cardinality({ i \in DOMAIN retList :
                                    retList[i] = C2_MismatchLine(n) }) = 1

\* The "not found" entries of a result list.
NotFoundEntries(l) ==
    { l[i] : i \in { j \in DOMAIN l : l[j].fmt = " {0} not found in {1}" } }

\* The entries the claim expects of a comparison of the recorded tables.
C3_Expected ==
    { NotFound(n, args.fc1) : n \in DOMAIN Dict2 \ DOMAIN Dict1 } \cup
    { NotFound(n, args.fc2) : n \in DOMAIN Dict1 \ DOMAIN Dict2 }

\* C3: compare_schemas(A, B) returns a "not found in A" entry for exactly
\* the names only in B's dictionary and a "not found in B" entry for
\* exactly the names only in A's, and compare_schemas(B, A) returns the
\* same set of entries.
C3_NotFoundSymmetric ==
    IsCompare =>
        LET back == compare_schemas(args.fc2, args.fc1,
                                    args.fields2, args.fields1) IN
        /\ status = "value"
        /\ NotFoundEntries(retList) = C3_Expected
        /\ back.status = "value"
        /\ NotFoundEntries(back.list) = C3_Expected

C5_HeaderThenRows ==
    (IsExport /\ args.fail = "none" /\ status = "None") =>
        LET lines == FileLines(logFile)
            n == Len(args.fields1) IN
        /\ Len(lines) = n + 1
        /\ lines[1] = <<Msg(HeaderText, <<>>)>>
        /\ \A i \in 1..n :
            /\ Len(lines[i + 1]) = 1
            /\ lines[i + 1][1].a[1] = args.fields1[i].name
            /\ args.fields1[i].type \in DOMAIN type_conversions
            /\ lines[i + 1][1].a[2] = type_conversions[args.fields1[i].type]

\* The names of a list of fields, in its order.
AllNames(l) == [i \in DOMAIN l |-> l[i].name]
NonRequiredNames(l) == AllNames(SelectSeq(l, LAMBDA f : ~f.required))

\* C6: list_field_names(input_fc, required) returns every field name when
\* required is True and only the non-required fields' names when it is
\* False, in ListFields order.
C6_ListFieldNames ==
    (op = "list_field_names" /\ args.variant = "table") =>
        retList = IF args.flag THEN AllNames(args.fields1)
                  ELSE NonRequiredNames(args.fields1)

\* The greatest string length among rows of text, 0 for no rows.
MaxLength(rows) ==
    IF rows = <<>> THEN 0
    ELSE LET lens == { Len(rows[i].chars) : i \in DOMAIN rows } IN
         CHOOSE m \in lens : \A k \in lens : k <= m

AllText(rows) == \A i \in DOMAIN rows : rows[i].kind = "text"

\* C7: for rows that are all strings and a cursor that does not fail,
\* get_max_field_value_length (field.py's, table.py's and TableObj's)
\* returns the greatest string length, and 0 for no rows.
C7_MaxLength ==
    (IsGetMax /\ AllText(args.rows) /\ args.fail = "none") =>
        (status = "value" /\ retInt = MaxLength(args.rows))

\* C7, its case: table.py's function over three strings, the longest first.
C7_Witness ==
    /\ IsGetMax
    /\ args.variant = "table"
    /\ args.fail = "none"
    /\ Len(args.rows) = 3
    /\ args.rows[1] = Text(NullToken)
    /\ args.rows[2] = Text(<<"a">>)
    /\ args.rows[3] = Text(<<>>)
    /\ retInt = 6

\* What the claim says a row value becomes: a null the module's sentinel,
\* text itself or, for 'ascii', itself without its non-ASCII characters,
\* any other value itself.
C8_Sentinel(variant) ==
    IF variant = "field" THEN Text(<<>>) ELSE Text(NullToken)
C8_PostTransform(variant, charset, v) ==
    CASE v.kind = "null" -> C8_Sentinel(variant)
      [] v.kind = "text" /\ charset = "ascii" ->
            [v EXCEPT !.chars = SelectSeq(v.chars, LAMBDA c : c # NonAscii)]
      [] OTHER -> v

\* C8: a scan that ends without error returns a set no larger than the
\* number of rows, and exactly the set of the rows' post-transform values.
C8_ValueSet ==
    (IsValueSet /\ status = "value") =>
        LET expected == { C8_PostTransform(args.variant, args.charset,
                                           args.rows[i]) : i \in DOMAIN args.rows }
        IN /\ Cardinality(retSet) <= Len(args.rows)
           /\ Cardinality(retSet) = Cardinality(expected)
           /\ retSet = expected

\* C8, its case: table.py's function with 'ascii' over a null, the text
\* "<Null>" and a text of one non-ASCII character: two values from three rows.
C8_Witness ==
    /\ IsValueSet
    /\ status = "value"
    /\ args.variant = "table"
    /\ args.charset = "ascii"
    /\ args.rows = <<Null, Text(NullToken), Text(<<NonAscii>>)>>
    /\ retSet = {Text(NullToken), Text(<<>>)}

\* C9: every failure raised while get_field_value_set opens or scans the
\* cursor, an exception without arguments included, is caught: one message
\* goes to output_msg, nothing reaches the caller, the result is None.
C9_FailureCaught ==
    (IsValueSet /\ args.fail # "none") =>
        (status = "None" /\ exc = "" /\ Len(msgs) = 1)

\* C10: make_field_dict never modifies the caller's ignore_fields list: it
\* holds exactly the names the caller put in it.
C10_IgnoreListUntouched == ignore_fields = caller_ignore

=============================================================================
